---- MODULE Spec2Model ----
(***************************************************************************)
(* Bloom filter (src/util/bloom.rs) and the filter related network         *)
(* messages (src/network/message_filter.rs) of rust-bitcoin.               *)
(*                                                                         *)
(* Representation of machine values:                                       *)
(*   u8        a number in 0..255                                          *)
(*   u32       a pair <<hi, lo>> of 16-bit limbs (value hi * 2^16 + lo),   *)
(*             so that every wrapping operation keeps its 32-bit width     *)
(*   Vec<u8>   a sequence of u8                                            *)
(*   f32       a record, see the section on floating point below           *)
(***************************************************************************)
EXTENDS Integers, Sequences, FiniteSets, TLC

\* ------------------------------------------------------------------------
\* 32-bit unsigned arithmetic on 16-bit limbs
\* ------------------------------------------------------------------------

\* 2^16, the limb base of the u32 representation.
Limb == 256 * 256

RECURSIVE Pow2(_)
Pow2(n) == IF n = 0 THEN 1 ELSE 2 * Pow2(n - 1)

\* Bitwise exclusive or of two naturals.
RECURSIVE XorNat(_, _)
XorNat(a, b) ==
    IF a = 0 THEN b
    ELSE IF b = 0 THEN a
    ELSE (((a % 2) + (b % 2)) % 2) + 2 * XorNat(a \div 2, b \div 2)

\* Bitwise or of two naturals.
RECURSIVE OrNat(_, _)
OrNat(a, b) ==
    IF a = 0 THEN b
    ELSE IF b = 0 THEN a
    ELSE (IF a % 2 = 1 \/ b % 2 = 1 THEN 1 ELSE 0) + 2 * OrNat(a \div 2, b \div 2)

\* Bitwise and of two naturals.
RECURSIVE AndNat(_, _)
AndNat(a, b) ==
    IF a = 0 \/ b = 0 THEN 0
    ELSE (IF a % 2 = 1 /\ b % 2 = 1 THEN 1 ELSE 0) + 2 * AndNat(a \div 2, b \div 2)

\* Body(v), with v evaluated once (let x = v; Body(x)).
Bind(v, Body(_)) == CHOOSE r \in {Body(x) : x \in {v}} : TRUE

U32(hi, lo) == <<hi, lo>>

IsU32(x) == x[1] \in 0..(Limb - 1) /\ x[2] \in 0..(Limb - 1)

\* A small natural (below 2^31) as a u32.
ToU32(n) == <<(n \div Limb) % Limb, n % Limb>>

\* x ^ y on u32.
Xor32(x, y) == <<XorNat(x[1], y[1]), XorNat(x[2], y[2])>>

\* x.wrapping_add(y) on u32.
Add32(x, y) ==
    LET lo == x[2] + y[2]
    IN  <<(x[1] + y[1] + (lo \div Limb)) % Limb, lo % Limb>>

\* (a * b) mod 2^16 for 16-bit a, b, without leaving 31 bits.
MulLow16(a, b) == (((((a \div 256) * b) % 256) * 256) + ((a % 256) * b)) % Limb

\* The full 32-bit product of two 16-bit numbers, as a u32.
MulFull16(a, b) ==
    LET p0 == (a % 256) * b
        p1 == (a \div 256) * b
        lo == (p0 % Limb) + ((p1 % 256) * 256)
    IN  <<((p0 \div Limb) + (p1 \div 256) + (lo \div Limb)) % Limb, lo % Limb>>

\* x.wrapping_mul(y) on u32.
Mul32(x, y) ==
    LET ll == MulFull16(x[2], y[2])
    IN  <<(ll[1] + MulLow16(x[1], y[2]) + MulLow16(x[2], y[1])) % Limb, ll[2]>>

\* x >> r for 0 < r < 32.
Shr32(x, r) ==
    IF r >= 16
    THEN <<0, x[1] \div Pow2(r - 16)>>
    ELSE <<x[1] \div Pow2(r), ((x[1] % Pow2(r)) * Pow2(16 - r)) + (x[2] \div Pow2(r))>>

\* x << r (bits shifted out are dropped) for 0 < r < 32.
Shl32(x, r) ==
    IF r >= 16
    THEN <<(x[2] % Pow2(32 - r)) * Pow2(r - 16), 0>>
    ELSE <<((x[1] % Pow2(16 - r)) * Pow2(r)) + (x[2] \div Pow2(16 - r)),
           (x[2] % Pow2(16 - r)) * Pow2(r)>>

\* x.rotate_left(r) for 0 < r < 32.
Rotl32(x, r) ==
    LET a == Shl32(x, r)
        b == Shr32(x, 32 - r)
    IN  <<a[1] + b[1], a[2] + b[2]>>

\* x % m for a u32 x and 0 < m < 2^15.
Mod32(x, m) == ((((x[1] % m) * (Limb % m)) % m) + (x[2] % m)) % m

\* ------------------------------------------------------------------------
\* murmur3::seeded : MurmurHash3 (x86, 32 bit) of a byte sequence
\* ------------------------------------------------------------------------

MurmurC1 == U32(52382, 11601)   \* 0xcc9e2d51
MurmurC2 == U32(7047, 13715)    \* 0x1b873593
MurmurN  == U32(58964, 27492)   \* 0xe6546b64
MurmurF1 == U32(34283, 51819)   \* 0x85ebca6b
MurmurF2 == U32(49842, 44597)   \* 0xc2b2ae35

\* The mixing of one 32-bit block k.
MurmurMixK(k) == Mul32(Rotl32(Mul32(k, MurmurC1), 15), MurmurC2)

\* The little-endian u32 of bytes d[i] .. d[i+3].
Block32(d, i) == <<(d[i + 3] * 256) + d[i + 2], (d[i + 1] * 256) + d[i]>>

\* The body: blocks i, i+1, ... of d folded into h.  (The test of h at
\* each block makes TLC evaluate the accumulator block by block instead of
\* as one nested expression after the last block.)
RECURSIVE MurmurBody(_, _, _)
MurmurBody(d, i, h) ==
    IF 4 * i > Len(d) \/ ~IsU32(h) THEN h
    ELSE MurmurBody(d, i + 1,
           Add32(Mul32(Rotl32(Xor32(h, MurmurMixK(Block32(d, 4 * i - 3))), 13),
                       ToU32(5)),
                 MurmurN))

\* The tail: the Len(d) % 4 bytes after the last whole block.
MurmurTail(d, h) ==
    LET t  == Len(d) % 4
        b  == Len(d) - t
        k  == <<IF t >= 3 THEN d[b + 3] ELSE 0,
                (IF t >= 2 THEN d[b + 2] * 256 ELSE 0) + (IF t >= 1 THEN d[b + 1] ELSE 0)>>
    IN  IF t = 0 THEN h ELSE Xor32(h, MurmurMixK(k))

\* The final avalanche.
MurmurFmix(h) ==
    LET h1 == Xor32(h, Shr32(h, 16))
        h2 == Mul32(h1, MurmurF1)
        h3 == Xor32(h2, Shr32(h2, 13))
        h4 == Mul32(h3, MurmurF2)
    IN  Xor32(h4, Shr32(h4, 16))

seeded(d, seed) ==
    MurmurFmix(Xor32(MurmurTail(d, MurmurBody(d, 1, seed)), ToU32(Len(d))))

\* ------------------------------------------------------------------------
\* f32 arithmetic
\*
\* An f32 is a record [k, s, m, e]: k is "nan", "inf" or "fin", s the sign
\* (1 or -1), and a finite value is s * m * 2^e with m = 0 or
\* 2^14 <= m < 2^15: a binary floating point number whose significand is
\* kept to 15 bits (f32 keeps 24), rounded to nearest after every
\* operation, with the special values and their IEEE 754 rules.  No input
\* of the model comes near the f32 exponent range, so finite results stay
\* finite.
\* ------------------------------------------------------------------------

MantTop == Pow2(15)

NaN == [k |-> "nan", s |-> 1, m |-> 0, e |-> 0]
Inf(s) == [k |-> "inf", s |-> s, m |-> 0, e |-> 0]
Zero(s) == [k |-> "fin", s |-> s, m |-> 0, e |-> 0]

\* The number of binary digits of m.
RECURSIVE BitLen(_)
BitLen(m) == IF m = 0 THEN 0 ELSE 1 + BitLen(m \div 2)

\* The finite value s * m * 2^e, rounded to a 15-bit significand.
F(s, m, e) ==
    IF m = 0 THEN Zero(s)
    ELSE LET n == BitLen(m) - 15
         IN  IF n <= 0
             THEN [k |-> "fin", s |-> s, m |-> m * Pow2(-n), e |-> e + n]
             ELSE LET q == (m \div Pow2(n)) + ((m \div Pow2(n - 1)) % 2)
                  IN  IF q = MantTop
                      THEN [k |-> "fin", s |-> s, m |-> q \div 2, e |-> e + n + 1]
                      ELSE [k |-> "fin", s |-> s, m |-> q, e |-> e + n]

IsZero(x) == x.k = "fin" /\ x.m = 0

\* a * b
FMul(a, b) ==
    IF a.k = "nan" \/ b.k = "nan" THEN NaN
    ELSE IF a.k = "inf" \/ b.k = "inf"
         THEN IF IsZero(a) \/ IsZero(b) THEN NaN ELSE Inf(a.s * b.s)
    ELSE F(a.s * b.s, a.m * b.m, a.e + b.e)

\* a / b
FDiv(a, b) ==
    IF a.k = "nan" \/ b.k = "nan" THEN NaN
    ELSE IF a.k = "inf" THEN (IF b.k = "inf" THEN NaN ELSE Inf(a.s * b.s))
    ELSE IF b.k = "inf" THEN Zero(a.s * b.s)
    ELSE IF IsZero(b) THEN (IF IsZero(a) THEN NaN ELSE Inf(a.s * b.s))
    ELSE F(a.s * b.s, (a.m * MantTop) \div b.m, a.e - b.e - 15)

\* `n as f32` for an unsigned integer n below 2^31.
AsF32(n) == F(1, n, 0)

\* The false positive rates the model constructs filters with, and the
\* natural logarithm (f32::ln) of each finite positive one.
Rate1em20 == F(1, 24179, -81)    \* 1e-20
Rate1em4  == F(1, 26844, -28)    \* 0.0001
Rate1em2  == F(1, 20972, -21)    \* 0.01
Rate2em2  == F(1, 20972, -20)    \* 0.02
RateHalf  == F(1, 16384, -15)    \* 0.5
RateOne   == F(1, 16384, -14)    \* 1.0
RateTwo   == F(1, 16384, -13)    \* 2.0
RateZero  == Zero(1)             \* 0.0
RateNeg   == F(-1, 16384, -14)   \* -1.0

LnTable(x) ==
    CASE x = Rate1em20 -> F(-1, 23578, -9)    \* -46.0517
      [] x = Rate1em4  -> F(-1, 18863, -11)   \* -9.21034
      [] x = Rate1em2  -> F(-1, 18863, -12)   \* -4.60517
      [] x = Rate2em2  -> F(-1, 32047, -13)   \* -3.91202
      [] x = RateHalf  -> F(-1, 22713, -15)   \* -0.693147
      [] x = RateOne   -> Zero(1)
      [] x = RateTwo   -> F(1, 22713, -15)    \* 0.693147

\* x.ln()
Ln(x) ==
    IF x.k = "nan" THEN NaN
    ELSE IF IsZero(x) THEN Inf(-1)
    ELSE IF x.s = -1 THEN NaN
    ELSE IF x.k = "inf" THEN Inf(1)
    ELSE LnTable(x)

Min(a, b) == IF a <= b THEN a ELSE b

\* min(x as usize, max) and min(x as u32, max) for max < 2^30: the cast
\* truncates toward zero, saturates at the ends of the integer type and
\* sends NaN to 0.
AsUintMin(x, max) ==
    IF x.k = "nan" THEN 0
    ELSE IF x.s = -1 THEN 0
    ELSE IF x.k = "inf" THEN max
    ELSE IF x.e >= 16 THEN max
    ELSE IF x.e >= 0 THEN Min(x.m * Pow2(x.e), max)
    ELSE IF x.e <= -15 THEN 0
    ELSE Min(x.m \div Pow2(-x.e), max)

\* x > n, for an f32 x and an integer 0 < n < 2^15.
FGreater(x, n) ==
    /\ x.k # "nan"
    /\ x.s = 1
    /\ \/ x.k = "inf"
       \/ /\ x.k = "fin"
          /\ IF x.e >= 16 THEN TRUE
             ELSE IF x.e >= 0 THEN x.m * Pow2(x.e) > n
             ELSE IF x.e <= -15 THEN FALSE
             ELSE x.m > n * Pow2(-x.e)

\* ------------------------------------------------------------------------
\* util/bloom.rs
\* ------------------------------------------------------------------------

MAX_BLOOM_FILTER_SIZE == 520
MAX_HASH_FUNCS == 50
LN2_SQUARED == F(1, 31487, -16)   \* 0.4804530139182014...
LN2 == F(1, 22713, -15)           \* 0.6931471805599453...
SEED_COEF == U32(64420, 51093)    \* 0xfba4c795
\* BIT_MASK with the masks in the opposite order (bit 0 the most
\* significant).
BIT_MASK_MsbFirst == <<128, 64, 32, 16, 8, 4, 2, 1>>

BIT_MASK == <<1, 2, 4, 8, 16, 32, 64, 128>>

\* let data_size = -1.0 / LN2_SQUARED * (n_elements as f32) * fp_rate.ln() / 8.0
SizeF(n_elements, fp_rate) ==
    FDiv(FMul(FMul(FDiv(F(-1, 1, 0), LN2_SQUARED), AsF32(n_elements)), Ln(fp_rate)),
         F(1, 8, 0))

\* DataSize clamped to the 36,000 bytes of the filterload message instead of
\* MAX_BLOOM_FILTER_SIZE.
DataSizeMessageMax(n_elements, fp_rate) ==
    AsUintMin(SizeF(n_elements, fp_rate), 36000)

\* let data_size = min(data_size as usize, MAX_BLOOM_FILTER_SIZE as usize)
DataSize(n_elements, fp_rate) ==
    AsUintMin(SizeF(n_elements, fp_rate), MAX_BLOOM_FILTER_SIZE)

\* let n_hash_funcs = data_size as f32 * 8.0 / (n_elements as f32) * LN2
HashFuncsF(data_size, n_elements) ==
    FMul(FDiv(FMul(AsF32(data_size), F(1, 8, 0)), AsF32(n_elements)), LN2)

\* NHashFuncs never below one round.
NHashFuncsAtLeastOne(data_size, n_elements) ==
    IF AsUintMin(HashFuncsF(data_size, n_elements), MAX_HASH_FUNCS) = 0 THEN 1
    ELSE AsUintMin(HashFuncsF(data_size, n_elements), MAX_HASH_FUNCS)

\* let n_hash_funcs = min(n_hash_funcs as u32, MAX_HASH_FUNCS as u32)
NHashFuncs(data_size, n_elements) ==
    AsUintMin(HashFuncsF(data_size, n_elements), MAX_HASH_FUNCS)

\* BloomFilter::new; tweak is the value rand::random() returns.
new(n_elements, fp_rate, flags, tweak) ==
    LET data_size == DataSize(n_elements, fp_rate)
    IN  [data |-> [i \in 1..data_size |-> 0],
         n_hash_funcs |-> NHashFuncs(data_size, n_elements),
         n_tweak |-> tweak,
         n_flags |-> flags]

\* The byte sequences the model inserts and queries: the four strings of
\* the tests create_insert and create_insert_with_tweak (as_bytes() of the
\* text), the empty sequence and two short ones.
\* "99108ad8ed9bb6274d3980bab5a85c048f0950c8"
Elem99108 ==
    <<57, 57, 49, 48, 56, 97, 100, 56, 101, 100, 57, 98, 98, 54, 50, 55,
      52, 100, 51, 57, 56, 48, 98, 97, 98, 53, 97, 56, 53, 99, 48, 52, 56,
      102, 48, 57, 53, 48, 99, 56>>
\* "b5a2c786d9ef4658287ced5914b37a1b4aa32eee"
ElemB5A2C ==
    <<98, 53, 97, 50, 99, 55, 56, 54, 100, 57, 101, 102, 52, 54, 53, 56,
      50, 56, 55, 99, 101, 100, 53, 57, 49, 52, 98, 51, 55, 97, 49, 98, 52,
      97, 97, 51, 50, 101, 101, 101>>
\* "b9300670b4c5366e95b2699e8b18bc75e5f729c5"
ElemB9300 ==
    <<98, 57, 51, 48, 48, 54, 55, 48, 98, 52, 99, 53, 51, 54, 54, 101, 57,
      53, 98, 50, 54, 57, 57, 101, 56, 98, 49, 56, 98, 99, 55, 53, 101, 53,
      102, 55, 50, 57, 99, 53>>
\* "19108ad8ed9bb6274d3980bab5a85c048f0950c8"
Elem19108 ==
    <<49, 57, 49, 48, 56, 97, 100, 56, 101, 100, 57, 98, 98, 54, 50, 55,
      52, 100, 51, 57, 56, 48, 98, 97, 98, 53, 97, 56, 53, 99, 48, 52, 56,
      102, 48, 57, 53, 48, 99, 56>>

Elements == {Elem99108, ElemB5A2C, ElemB9300, Elem19108, <<>>, <<1, 2, 3, 4, 5>>}

\* The values rand::random() yields for n_tweak in the model: 0 and
\* 2147483649, the values the tests force.
Tweaks == {U32(0, 0), U32(32768, 1)}

\* let seed = n_hash_func.wrapping_mul(SEED_COEF).wrapping_add(self.n_tweak)
Seed(n_hash_func, n_tweak) == Add32(Mul32(ToU32(n_hash_func), SEED_COEF), n_tweak)

\* seeded(data, seed) for every element and every seed of the model,
\* computed once.
Murmur ==
    [d \in Elements, t \in Tweaks, i \in 0..(MAX_HASH_FUNCS - 1) |-> seeded(d, Seed(i, t))]
        @@ <<>>

\* The divisor of the remainder in hash.
HashDivisor(self) == Len(self.data) * 8

\* hash with n_flags mixed into the index.
hashWithFlags(self, n_hash_func, d) ==
    (Mod32(Murmur[d, self.n_tweak, n_hash_func], HashDivisor(self)) + self.n_flags)
        % HashDivisor(self)

\* BloomFilter::hash, for HashDivisor(self) > 0 (it panics on 0).
hash(self, n_hash_func, d) ==
    Mod32(Murmur[d, self.n_tweak, n_hash_func], HashDivisor(self))

\* InsertRound with ^= in place of |=.
InsertRoundXor(s, d) ==
    IF HashDivisor(s.self) = 0 THEN [s EXCEPT !.panic = TRUE]
    ELSE Bind(hash(s.self, s.i_hash_func, d), LAMBDA i_data :
         Bind(i_data \div 8, LAMBDA offset :
           IF offset >= Len(s.self.data) THEN [s EXCEPT !.panic = TRUE]
           ELSE [s EXCEPT !.self.data[offset + 1] =
                            XorNat(@, BIT_MASK[AndNat(7, i_data) + 1]),
                          !.i_hash_func = @ + 1]))

\* One round of the loop of BloomFilter::insert.  s is the state of the
\* call: the filter, the round i_hash_func the loop is at, and whether the
\* call panicked (a remainder with divisor zero in hash, or an index
\* outside data).
InsertRound(s, d) ==
    IF HashDivisor(s.self) = 0 THEN [s EXCEPT !.panic = TRUE]
    ELSE Bind(hash(s.self, s.i_hash_func, d), LAMBDA i_data :
         Bind(i_data \div 8, LAMBDA offset :
           IF offset >= Len(s.self.data) THEN [s EXCEPT !.panic = TRUE]
           ELSE [s EXCEPT !.self.data[offset + 1] =
                            OrNat(@, BIT_MASK[AndNat(7, i_data) + 1]),
                          !.i_hash_func = @ + 1]))

\* for i_hash_func in 0..self.n_hash_funcs { ... }: the next n iterations.
\* (They are evaluated as two halves, which keeps the depth of TLC's
\* evaluation logarithmic in n; the rounds run one after the other, in
\* order.)
RECURSIVE InsertLoop(_, _, _)
InsertLoop(s, d, n) ==
    IF n = 0 THEN s
    ELSE IF n = 1
    THEN (IF s.panic \/ s.i_hash_func >= s.self.n_hash_funcs THEN s
          ELSE InsertRound(s, d))
    ELSE Bind(InsertLoop(s, d, n \div 2), LAMBDA half :
              InsertLoop(half, d, n - (n \div 2)))

\* insert whose loop starts at round 1 (for i_hash_func in 1..n_hash_funcs).
insertFromRoundOne(self, d) ==
    Bind(InsertLoop([self |-> self, i_hash_func |-> 1, panic |-> FALSE], d,
                    self.n_hash_funcs),
         LAMBDA s : [self |-> s.self, panic |-> s.panic])

\* insert that counts self.n_hash_funcs down to zero as it goes.
insertCountsDown(self, d) ==
    Bind(InsertLoop([self |-> self, i_hash_func |-> 0, panic |-> FALSE], d,
                    self.n_hash_funcs),
         LAMBDA s : [self |-> [s.self EXCEPT !.n_hash_funcs = 0], panic |-> s.panic])

\* BloomFilter::insert: the filter afterwards, and whether the call
\* panicked.
insert(self, d) ==
    Bind(InsertLoop([self |-> self, i_hash_func |-> 0, panic |-> FALSE], d,
                    self.n_hash_funcs),
         LAMBDA s : [self |-> s.self, panic |-> s.panic])

\* ContainsRound that tests the whole byte instead of the bit.
ContainsRoundByte(self, s, d) ==
    IF HashDivisor(self) = 0 THEN [s EXCEPT !.panic = TRUE]
    ELSE Bind(hash(self, s.i_hash_func, d), LAMBDA i_data :
         Bind(i_data \div 8, LAMBDA offset :
           IF offset >= Len(self.data) THEN [s EXCEPT !.panic = TRUE]
           ELSE IF 0 = self.data[offset + 1]
           THEN [s EXCEPT !.done = TRUE, !.ret = FALSE]
           ELSE [s EXCEPT !.i_hash_func = @ + 1]))

\* One round of the loop of BloomFilter::contains.  s is the state of the
\* call: the round the loop is at, the value returned once done is set,
\* and whether the call panicked.
ContainsRound(self, s, d) ==
    IF HashDivisor(self) = 0 THEN [s EXCEPT !.panic = TRUE]
    ELSE Bind(hash(self, s.i_hash_func, d), LAMBDA i_data :
         Bind(i_data \div 8, LAMBDA offset :
           IF offset >= Len(self.data) THEN [s EXCEPT !.panic = TRUE]
           ELSE IF 0 = AndNat(self.data[offset + 1], BIT_MASK[AndNat(7, i_data) + 1])
           THEN [s EXCEPT !.done = TRUE, !.ret = FALSE]
           ELSE [s EXCEPT !.i_hash_func = @ + 1]))

\* for i_hash_func in 0..self.n_hash_funcs { ... return false ... } true:
\* the next n iterations, the last of which is the exit of the loop.
RECURSIVE ContainsLoop(_, _, _, _)
ContainsLoop(self, s, d, n) ==
    IF n = 0 THEN s
    ELSE IF n = 1
    THEN (IF s.panic \/ s.done THEN s
          ELSE IF s.i_hash_func >= self.n_hash_funcs
          THEN [s EXCEPT !.done = TRUE, !.ret = TRUE]
          ELSE ContainsRound(self, s, d))
    ELSE Bind(ContainsLoop(self, s, d, n \div 2), LAMBDA half :
              ContainsLoop(self, half, d, n - (n \div 2)))

\* contains that answers false when the loop has no round to run.
containsNeedsARound(self, d) ==
    Bind(ContainsLoop(self, [i_hash_func |-> 0, done |-> FALSE, ret |-> FALSE,
                             panic |-> FALSE], d, self.n_hash_funcs + 1),
         LAMBDA s : [ret |-> s.ret /\ self.n_hash_funcs > 0,
                     probes |-> IF s.done /\ ~s.ret THEN s.i_hash_func + 1
                                ELSE s.i_hash_func,
                     panic |-> s.panic])

\* BloomFilter::contains: the value returned, the number of rounds whose
\* bit the call tested, and whether the call panicked.
contains(self, d) ==
    Bind(ContainsLoop(self, [i_hash_func |-> 0, done |-> FALSE, ret |-> FALSE,
                             panic |-> FALSE], d, self.n_hash_funcs + 1),
         LAMBDA s : [ret |-> s.ret,
                     probes |-> IF s.done /\ ~s.ret THEN s.i_hash_func + 1
                                ELSE s.i_hash_func,
                     panic |-> s.panic])

\* ------------------------------------------------------------------------
\* network/message_filter.rs
\*
\* The three records and their constructors are in the source; the codec
\* that impl_consensus_encoding! binds them to is not, and is modelled
\* from the specification's description of it: fields in declared order,
\* u8 as one byte, u32 as four little-endian bytes, a hash as its 32 raw
\* bytes, a Vec as a variable-length count followed by its items; decoding
\* fails on truncated input, on a count that is not minimally encoded and
\* on bytes left over.
\* ------------------------------------------------------------------------

\* FilterLoadMessage::new
FilterLoadMessage(filter, n_hash_funcs, n_tweak, n_flags) ==
    [kind |-> "filterload", filter |-> filter, n_hash_funcs |-> n_hash_funcs,
     n_tweak |-> n_tweak, n_flags |-> n_flags]

\* FilterAddMessage::new
FilterAddMessage(d) == [kind |-> "filteradd", data |-> d]

\* MerkleBlockMessage::new
MerkleBlockMessage(version, prev_block, merkle_root, timestamp, bits, nonce, total_transactions, hashes, flags) ==
    [kind |-> "merkleblock", version |-> version, prev_block |-> prev_block,
     merkle_root |-> merkle_root, timestamp |-> timestamp, bits |-> bits,
     nonce |-> nonce, total_transactions |-> total_transactions,
     hashes |-> hashes, flags |-> flags]

\* The number of bytes of a Sha256dHash.
HashLen == 256 \div 8

EncU8(b) == <<b>>

EncU32(x) == <<x[2] % 256, x[2] \div 256, x[1] % 256, x[1] \div 256>>

\* The variable-length integer of a count n below 2^31.
EncVarInt(n) ==
    IF n < 253 THEN <<n>>
    ELSE IF n < Limb THEN <<253, n % 256, n \div 256>>
    ELSE <<254>> \o EncU32(ToU32(n))

EncBytes(v) == EncVarInt(Len(v)) \o v

EncHash(h) == h

RECURSIVE Concat(_)
Concat(ss) == IF ss = <<>> THEN <<>> ELSE Head(ss) \o Concat(Tail(ss))

EncHashes(hs) == EncVarInt(Len(hs)) \o Concat([i \in 1..Len(hs) |-> EncHash(hs[i])])

\* impl_consensus_encoding!(FilterLoadMessage, filter, n_hash_funcs, n_tweak, n_flags)
EncodeFilterLoad(m) ==
    EncBytes(m.filter) \o EncU32(m.n_hash_funcs) \o EncU32(m.n_tweak) \o EncU8(m.n_flags)

\* impl_consensus_encoding!(FilterAddMessage, data)
EncodeFilterAdd(m) == EncBytes(m.data)

\* EncodeMerkleBlock with bits emitted before timestamp.
EncodeMerkleBlockBitsFirst(m) ==
    EncU32(m.version) \o EncHash(m.prev_block) \o EncHash(m.merkle_root)
      \o EncU32(m.bits) \o EncU32(m.timestamp) \o EncU32(m.nonce)
      \o EncU32(m.total_transactions) \o EncHashes(m.hashes) \o EncBytes(m.flags)

\* impl_consensus_encoding!(MerkleBlockMessage, version, prev_block, merkle_root,
\*     timestamp, bits, nonce, total_transactions, hashes, flags)
EncodeMerkleBlock(m) ==
    EncU32(m.version) \o EncHash(m.prev_block) \o EncHash(m.merkle_root)
      \o EncU32(m.timestamp) \o EncU32(m.bits) \o EncU32(m.nonce)
      \o EncU32(m.total_transactions) \o EncHashes(m.hashes) \o EncBytes(m.flags)

\* A decoder reads from position p (the bytes before p are consumed) of the
\* bytes b and yields [ok, val, p]: whether it succeeded, the value and the
\* position after it.
DecodeError == [ok |-> FALSE, val |-> <<>>, p |-> 0]
Decoded(v, p) == [ok |-> TRUE, val |-> v, p |-> p]

DecU8(b, p) == IF p > Len(b) THEN DecodeError ELSE Decoded(b[p], p + 1)

DecU32(b, p) ==
    IF p + 3 > Len(b) THEN DecodeError
    ELSE Decoded(<<(b[p + 3] * 256) + b[p + 2], (b[p + 1] * 256) + b[p]>>, p + 4)

DecVarInt(b, p) ==
    IF p > Len(b) THEN DecodeError
    ELSE IF b[p] < 253 THEN Decoded(b[p], p + 1)
    ELSE IF b[p] = 253
    THEN IF p + 2 > Len(b) THEN DecodeError
         ELSE Bind((b[p + 2] * 256) + b[p + 1], LAMBDA n :
                IF n < 253 THEN DecodeError ELSE Decoded(n, p + 3))
    ELSE IF b[p] = 254
    THEN Bind(DecU32(b, p + 1), LAMBDA r :
           IF ~r.ok \/ r.val[1] = 0 \/ r.val[1] >= Limb \div 2 THEN DecodeError
           ELSE Decoded((r.val[1] * Limb) + r.val[2], r.p))
    ELSE DecodeError

DecBytes(b, p) ==
    Bind(DecVarInt(b, p), LAMBDA n :
      IF ~n.ok \/ n.p + n.val - 1 > Len(b) THEN DecodeError
      ELSE Decoded(SubSeq(b, n.p, n.p + n.val - 1), n.p + n.val))

DecHash(b, p) ==
    IF p + HashLen - 1 > Len(b) THEN DecodeError
    ELSE Decoded(SubSeq(b, p, p + HashLen - 1), p + HashLen)

DecHashes(b, p) ==
    Bind(DecVarInt(b, p), LAMBDA n :
      IF ~n.ok \/ n.p + (n.val * HashLen) - 1 > Len(b) THEN DecodeError
      ELSE Decoded([i \in 1..n.val |-> DecHash(b, n.p + ((i - 1) * HashLen)).val],
                   n.p + (n.val * HashLen)))

\* A record decoded up to position p stands for the message only if no
\* field failed and no byte is left.
Finish(b, fields, m) ==
    IF (\A i \in 1..Len(fields) : fields[i].ok) /\ fields[Len(fields)].p = Len(b) + 1
    THEN [ok |-> TRUE, val |-> m]
    ELSE [ok |-> FALSE, val |-> <<>>]

\* The position after field f, or past the end when f failed (every
\* decoder fails there).
After(b, f) == IF f.ok THEN f.p ELSE Len(b) + 2

DecodeFilterLoad(b) ==
    Bind(DecBytes(b, 1), LAMBDA f1 :
    Bind(DecU32(b, After(b, f1)), LAMBDA f2 :
    Bind(DecU32(b, After(b, f2)), LAMBDA f3 :
    Bind(DecU8(b, After(b, f3)), LAMBDA f4 :
      Finish(b, <<f1, f2, f3, f4>>,
             FilterLoadMessage(f1.val, f2.val, f3.val, f4.val))))))

DecodeFilterAdd(b) ==
    Bind(DecBytes(b, 1), LAMBDA f1 : Finish(b, <<f1>>, FilterAddMessage(f1.val)))

DecodeMerkleBlock(b) ==
    Bind(DecU32(b, 1), LAMBDA f1 :
    Bind(DecHash(b, After(b, f1)), LAMBDA f2 :
    Bind(DecHash(b, After(b, f2)), LAMBDA f3 :
    Bind(DecU32(b, After(b, f3)), LAMBDA f4 :
    Bind(DecU32(b, After(b, f4)), LAMBDA f5 :
    Bind(DecU32(b, After(b, f5)), LAMBDA f6 :
    Bind(DecU32(b, After(b, f6)), LAMBDA f7 :
    Bind(DecHashes(b, After(b, f7)), LAMBDA f8 :
    Bind(DecBytes(b, After(b, f8)), LAMBDA f9 :
      Finish(b, <<f1, f2, f3, f4, f5, f6, f7, f8, f9>>,
             MerkleBlockMessage(f1.val, f2.val, f3.val, f4.val, f5.val, f6.val,
                                f7.val, f8.val, f9.val)))))))))))

Decode(kind, b) ==
    CASE kind = "filterload" -> DecodeFilterLoad(b)
      [] kind = "filteradd" -> DecodeFilterAdd(b)
      [] kind = "merkleblock" -> DecodeMerkleBlock(b)

\* ------------------------------------------------------------------------
\* State
\* ------------------------------------------------------------------------

\* The number of distinct elements inserted into one filter.
MaxInserts == 2

VARIABLES
    bl,         \* the BloomFilter: [data, n_hash_funcs, n_tweak, n_flags]
    ctor,       \* the arguments of BloomFilter::new, where a specification keeps them
    op,         \* the last call: "none", "new", "insert" or "contains"
    arg,        \* its argument (<<>> for new)
    ret,        \* the value the last contains returned
    probes,     \* the number of rounds whose bit the last contains tested
    inserted,   \* the elements inserted so far
    panicked,   \* a call panicked
    bl2,        \* a second BloomFilter
    ret2,       \* the value the last contains on bl2 returned
    sent,       \* the message record constructed last
    wire,       \* its encoding
    received    \* what decoding the bytes on the wire gave: [done, ok, val]

vars == <<bl, ctor, op, arg, ret, probes, inserted, panicked, bl2, ret2,
          sent, wire, received>>

\* Values of the variables a specification does not use.
NoFilter == [data |-> <<>>, n_hash_funcs |-> 0, n_tweak |-> U32(0, 0), n_flags |-> 0]
NoCtor == [n_elements |-> 0, fp_rate |-> NaN]
NoMessage == [kind |-> "none"]
NotReceived == [done |-> FALSE, ok |-> FALSE, val |-> <<>>]

NoCall ==
    /\ arg = <<>>
    /\ ret = FALSE
    /\ probes = 0
    /\ inserted = {}
    /\ panicked = FALSE

NoTwin == bl2 = NoFilter /\ ret2 = FALSE
NoWire == sent = NoMessage /\ wire = <<>> /\ received = NotReceived

\* ------------------------------------------------------------------------
\* Spec: one filter under a sequence of insert and contains calls
\* ------------------------------------------------------------------------

NElements == {0, 3, 3000}
FpRates == {Rate1em20, Rate1em4, Rate1em2, RateTwo, RateZero}
Flags == {0, 1}

Init ==
    /\ \E n \in NElements, r \in FpRates, fl \in Flags, t \in Tweaks :
           bl = new(n, r, fl, t)
    /\ ctor = NoCtor
    /\ op = "new"
    /\ NoCall
    /\ NoTwin
    /\ NoWire

Insert(d) ==
    /\ ~panicked
    /\ Cardinality(inserted \cup {d}) <= MaxInserts
    /\ \E r \in {insert(bl, d)} :
           /\ bl' = r.self
           /\ panicked' = r.panic
    /\ op' = "insert"
    /\ arg' = d
    /\ inserted' = inserted \cup {d}
    /\ UNCHANGED <<ctor, ret, probes, bl2, ret2, sent, wire, received>>

Contains(d) ==
    /\ ~panicked
    /\ \E r \in {contains(bl, d)} :
           /\ ret' = r.ret
           /\ probes' = r.probes
           /\ panicked' = r.panic
    /\ op' = "contains"
    /\ arg' = d
    /\ UNCHANGED <<bl, ctor, inserted, bl2, ret2, sent, wire, received>>

Next ==
    \/ \E d \in Elements : Insert(d)
    \/ \E d \in Elements : Contains(d)

Spec == Init /\ [][Next]_vars

\* ------------------------------------------------------------------------
\* SpecNew: BloomFilter::new over a grid of arguments
\* ------------------------------------------------------------------------

NElementsGrid == {0, 1, 2, 3, 5, 10, 100, 144, 145, 3000, 1000000, 2147483647}
FpRatesGrid == {Rate1em20, Rate1em4, Rate1em2, Rate2em2, RateHalf, RateOne, RateTwo,
                RateZero, RateNeg}

InitNew ==
    /\ bl = NoFilter
    /\ ctor = NoCtor
    /\ op = "none"
    /\ NoCall
    /\ NoTwin
    /\ NoWire

Construct(n, r, fl, t) ==
    /\ op = "none"
    /\ bl' = new(n, r, fl, t)
    /\ ctor' = [n_elements |-> n, fp_rate |-> r]
    /\ op' = "new"
    /\ UNCHANGED <<arg, ret, probes, inserted, panicked, bl2, ret2, sent, wire, received>>

NextNew ==
    \E n \in NElementsGrid, r \in FpRatesGrid, fl \in Flags, t \in Tweaks :
        Construct(n, r, fl, t)

SpecNew == InitNew /\ [][NextNew]_vars

\* ------------------------------------------------------------------------
\* SpecTwin: two filters of the same size, rounds and tweak under the same
\* sequence of calls
\* ------------------------------------------------------------------------

TwinNElements == {3}
TwinFpRates == {Rate1em4, Rate1em2, Rate2em2}

\* bl2 is constructed from arguments of its own and, like the filters of
\* the tests, has its n_tweak set afterwards (bl.n_tweak = ...).
InitTwin ==
    /\ \E n \in TwinNElements, r \in TwinFpRates, fl \in Flags, t \in Tweaks :
           bl = new(n, r, fl, t)
    /\ \E n \in TwinNElements, r \in TwinFpRates, fl \in Flags, t \in Tweaks :
           bl2 = [new(n, r, fl, t) EXCEPT !.n_tweak = bl.n_tweak]
    /\ Len(bl2.data) = Len(bl.data)
    /\ bl2.n_hash_funcs = bl.n_hash_funcs
    /\ ctor = NoCtor
    /\ op = "new"
    /\ NoCall
    /\ ret2 = FALSE
    /\ NoWire

InsertBoth(d) ==
    /\ ~panicked
    /\ Cardinality(inserted \cup {d}) <= MaxInserts
    /\ \E r \in {insert(bl, d)}, r2 \in {insert(bl2, d)} :
           /\ bl' = r.self
           /\ bl2' = r2.self
           /\ panicked' = (r.panic \/ r2.panic)
    /\ op' = "insert"
    /\ arg' = d
    /\ inserted' = inserted \cup {d}
    /\ UNCHANGED <<ctor, ret, probes, ret2, sent, wire, received>>

ContainsBoth(d) ==
    /\ ~panicked
    /\ \E r \in {contains(bl, d)}, r2 \in {contains(bl2, d)} :
           /\ ret' = r.ret
           /\ probes' = r.probes
           /\ ret2' = r2.ret
           /\ panicked' = (r.panic \/ r2.panic)
    /\ op' = "contains"
    /\ arg' = d
    /\ UNCHANGED <<bl, bl2, ctor, inserted, sent, wire, received>>

NextTwin ==
    \/ \E d \in Elements : InsertBoth(d)
    \/ \E d \in Elements : ContainsBoth(d)

SpecTwin == InitTwin /\ [][NextTwin]_vars

\* ------------------------------------------------------------------------
\* SpecMsg: a message record is constructed and encoded, and the bytes are
\* decoded
\* ------------------------------------------------------------------------

\* Byte sequences: empty, short, and one of 253 bytes (the shortest whose
\* count takes the three byte form).
ByteSeqs == {<<>>, <<0>>, <<255, 1, 128>>, [i \in 1..253 |-> i % 256]}
U32s == {U32(0, 1), U32(65535, 65534)}
U32sB == {U32(256, 0), U32(32768, 255)}
Hashes == {[i \in 1..HashLen |-> 0], [i \in 1..HashLen |-> 255 - i]}
HashSeqs == {<<>>, <<[i \in 1..HashLen |-> i]>>,
             <<[i \in 1..HashLen |-> 255], [i \in 1..HashLen |-> 0]>>}

InitMsg ==
    /\ bl = NoFilter
    /\ ctor = NoCtor
    /\ op = "none"
    /\ NoCall
    /\ NoTwin
    /\ NoWire

SendFilterLoad ==
    /\ sent = NoMessage
    /\ \E f \in ByteSeqs, k \in U32s, t \in U32sB, fl \in {0, 255} :
           sent' = FilterLoadMessage(f, k, t, fl)
    /\ wire' = EncodeFilterLoad(sent')
    /\ UNCHANGED <<bl, ctor, op, arg, ret, probes, inserted, panicked, bl2, ret2,
                   received>>

SendFilterAdd ==
    /\ sent = NoMessage
    /\ \E d \in ByteSeqs : sent' = FilterAddMessage(d)
    /\ wire' = EncodeFilterAdd(sent')
    /\ UNCHANGED <<bl, ctor, op, arg, ret, probes, inserted, panicked, bl2, ret2,
                   received>>

SendMerkleBlock ==
    /\ sent = NoMessage
    /\ \E v \in U32s, pb \in Hashes, mr \in Hashes, ts \in U32sB, bits \in U32s,
          nonce \in U32sB, tt \in U32s, hs \in HashSeqs, fl \in ByteSeqs :
           sent' = MerkleBlockMessage(v, pb, mr, ts, bits, nonce, tt, hs, fl)
    /\ wire' = EncodeMerkleBlock(sent')
    /\ UNCHANGED <<bl, ctor, op, arg, ret, probes, inserted, panicked, bl2, ret2,
                   received>>

Receive ==
    /\ sent # NoMessage
    /\ received = NotReceived
    /\ \E r \in {Decode(sent.kind, wire)} :
           received' = [done |-> TRUE, ok |-> r.ok, val |-> r.val]
    /\ UNCHANGED <<bl, ctor, op, arg, ret, probes, inserted, panicked, bl2, ret2,
                   sent, wire>>

NextMsg == SendFilterLoad \/ SendFilterAdd \/ SendMerkleBlock \/ Receive

SpecMsg == InitMsg /\ [][NextMsg]_vars

\* ------------------------------------------------------------------------
\* Properties
\* ------------------------------------------------------------------------

\* Bit j of data: bit (j % 8), counted from the least significant, of
\* byte (j / 8).
Bit(data, j) == ((data[(j \div 8) + 1] \div Pow2(j % 8)) % 2) = 1

\* The bit indices of element d in the filter self, one per round.
HashBits(self, d) == {hash(self, i, d) : i \in 0..(self.n_hash_funcs - 1)}

\* The rounds of element d whose bit is unset in the filter self.
UnsetRounds(self, d) ==
    {i \in 0..(self.n_hash_funcs - 1) : ~Bit(self.data, hash(self, i, d))}

\* C1: no false negatives.  Whatever the arguments of new and the tweak,
\* contains(d) returns true for an element d that was inserted, however
\* many other elements were inserted since.
NoFalseNegatives ==
    (op = "contains" /\ arg \in inserted) => ret = TRUE

NoFalseNegativesWitness ==
    /\ op = "contains"
    /\ arg = Elem99108
    /\ inserted = {Elem99108, ElemB9300}
    /\ ret = TRUE
    /\ bl.n_hash_funcs = 50
    /\ bl.n_tweak = U32(32768, 1)

\* C2: the bits of data are changed only by insert and only from 0 to 1.
\* In every step the length of data stays, every bit that was set stays
\* set, and a step that is not an insert leaves the filter as it was.
BitsOnlySet ==
    [][/\ Len(bl'.data) = Len(bl.data)
       /\ \A b \in 1..Len(bl.data) :
              bl'.data[b] # bl.data[b] =>
                  \A t \in 0..7 : Bit(bl.data, (8 * (b - 1)) + t)
                                      => Bit(bl'.data, (8 * (b - 1)) + t)
       /\ op' # "insert" => bl' = bl]_vars

BitsOnlySetWitness ==
    /\ op = "contains"
    /\ Cardinality(inserted) = 2
    /\ bl.n_hash_funcs = 5
    /\ \E b \in 1..Len(bl.data) : bl.data[b] # 0
    /\ ret = FALSE

\* C3: the length of data, n_hash_funcs, n_tweak and n_flags are those new
\* gave the filter, in every step of insert and contains.
ParametersFixed ==
    [][/\ Len(bl'.data) = Len(bl.data)
       /\ bl'.n_hash_funcs = bl.n_hash_funcs
       /\ bl'.n_tweak = bl.n_tweak
       /\ bl'.n_flags = bl.n_flags]_vars

ParametersFixedWitness ==
    /\ op = "insert"
    /\ Cardinality(inserted) = 2
    /\ Len(bl.data) = 7
    /\ bl.n_hash_funcs = 12
    /\ bl.n_tweak = U32(32768, 1)
    /\ bl.n_flags = 1
    /\ \E b \in 1..Len(bl.data) : bl.data[b] # 0

\* C4: new clamps.  The filter it returns has at most MAX_BLOOM_FILTER_SIZE
\* bytes and at most MAX_HASH_FUNCS rounds; it has exactly that many bytes
\* when the size formula gives more, and exactly that many rounds when the
\* round formula (over the clamped size) gives more.
NewClamps ==
    op = "new" =>
        /\ Len(bl.data) <= MAX_BLOOM_FILTER_SIZE
        /\ bl.n_hash_funcs <= MAX_HASH_FUNCS
        /\ FGreater(SizeF(ctor.n_elements, ctor.fp_rate), MAX_BLOOM_FILTER_SIZE)
               => Len(bl.data) = MAX_BLOOM_FILTER_SIZE
        /\ FGreater(HashFuncsF(Len(bl.data), ctor.n_elements), MAX_HASH_FUNCS)
               => bl.n_hash_funcs = MAX_HASH_FUNCS

NewClampsWitness ==
    /\ op = "new"
    /\ FGreater(SizeF(ctor.n_elements, ctor.fp_rate), MAX_BLOOM_FILTER_SIZE)
    /\ FGreater(HashFuncsF(Len(bl.data), ctor.n_elements), MAX_HASH_FUNCS)
    /\ Len(bl.data) = MAX_BLOOM_FILTER_SIZE
    /\ bl.n_hash_funcs = MAX_HASH_FUNCS

\* C5: insert and contains are total.  On no filter new returns, the ones
\* of zero bytes included, does a call panic: hash takes no remainder by
\* zero and no byte outside data is indexed.
NoPanic == ~panicked

NoPanicWitness ==
    /\ Len(bl.data) = 0
    /\ op = "contains"
    /\ inserted # {}
    /\ arg = <<>>
    /\ ~panicked

\* C6: determinism.  Two filters of the same length, rounds and tweak that
\* get the same calls hold the same bytes after every call and answer
\* every contains alike, and the index hash gives depends on nothing of
\* the filter but its n_tweak and the length of data.
TwinsAgree ==
    /\ bl2.data = bl.data
    /\ ret2 = ret
    /\ \A d \in Elements, i \in 0..(bl.n_hash_funcs - 1) :
           /\ hash(bl2, i, d) = hash(bl, i, d)
           /\ hash([NoFilter EXCEPT !.data = [b \in 1..Len(bl.data) |-> 0],
                                    !.n_tweak = bl.n_tweak], i, d) = hash(bl, i, d)

TwinsAgreeWitness ==
    /\ bl2.n_flags # bl.n_flags
    /\ op = "contains"
    /\ Cardinality(inserted) = 2
    /\ ret = TRUE
    /\ ret2 = TRUE
    /\ \E b \in 1..Len(bl.data) : bl.data[b] # 0

\* C7: contains(d) returns true exactly when the bit of every round of d
\* is set, and it returns false at the first round whose bit is unset: the
\* rounds it tested are those up to and including that one.
ContainsTestsEveryRound ==
    (op = "contains" /\ ~panicked) =>
        /\ ret = (UnsetRounds(bl, arg) = {})
        /\ probes = IF UnsetRounds(bl, arg) = {} THEN bl.n_hash_funcs
                    ELSE 1 + CHOOSE i \in UnsetRounds(bl, arg) :
                                 \A j \in UnsetRounds(bl, arg) : i <= j

ContainsTestsEveryRoundWitness ==
    /\ op = "contains"
    /\ ret = FALSE
    /\ probes > 1
    /\ probes < bl.n_hash_funcs
    /\ arg \notin inserted
    /\ inserted # {}

InsertSetsExactlyHashBits ==
    [][(op' = "insert" /\ ~panicked') =>
           Bind(HashBits(bl, arg'), LAMBDA H :
             /\ Len(bl'.data) = Len(bl.data)
             /\ \A h \in H : Bit(bl'.data, h)
             /\ \A b \in 1..Len(bl.data) :
                    bl'.data[b] # bl.data[b] =>
                        \A t \in 0..7 :
                            Bit(bl'.data, (8 * (b - 1)) + t)
                                = (\/ Bit(bl.data, (8 * (b - 1)) + t)
                                   \/ ((8 * (b - 1)) + t) \in H)
             /\ (\A h \in H : Bit(bl.data, h)) => bl' = bl)]_vars

InsertSetsExactlyHashBitsWitness ==
    /\ op = "insert"
    /\ arg = ElemB5A2C
    /\ inserted = {Elem99108, ElemB5A2C}
    /\ bl.n_hash_funcs = 5
    /\ bl.n_tweak = U32(0, 0)
    /\ HashBits(bl, Elem99108) \cap HashBits(bl, ElemB5A2C) # {}

\* C10: a filter of no rounds and a filter of no elements.  A filter of
\* zero bytes has no rounds; in a filter of no rounds no bit is ever set
\* and contains returns true for everything; in a filter of at least one
\* round into which nothing was inserted contains returns false.
NoRoundsNoElements ==
    /\ Len(bl.data) = 0 => bl.n_hash_funcs = 0
    /\ bl.n_hash_funcs = 0 =>
           /\ \A b \in 1..Len(bl.data) : bl.data[b] = 0
           /\ op = "contains" => ret = TRUE
    /\ (bl.n_hash_funcs >= 1 /\ inserted = {} /\ op = "contains") => ret = FALSE

NoRoundsNoElementsWitness ==
    /\ bl.n_hash_funcs = 0
    /\ Len(bl.data) = MAX_BLOOM_FILTER_SIZE
    /\ op = "contains"
    /\ ret = TRUE
    /\ arg \notin inserted
    /\ Cardinality(inserted) = 1

====
